---- MODULE Spec2Model ----
(***************************************************************************)
(* A model of malbeacon.py: the MalBeacon command line client.            *)
(*                                                                         *)
(* Python values.  A str is a sequence of one-character strings, so that   *)
(* the regular expressions and the conversions of the program are computed *)
(* character by character.  A value that may be None is wrapped:           *)
(* Str(s) or None.  A call's outcome is [exc, val]: exc names the class    *)
(* of the exception raised ("None" when the call returns val).             *)
(***************************************************************************)
EXTENDS Integers, Sequences, FiniteSets, TLC

VARIABLES
    pc,                   \* where main() stands
    args,                 \* the parsed command line: [command, value, json]
    requests,             \* the URLs of the GET requests sent, in order
    response,             \* the response to the GET: [status_code, body]
    got,                  \* what _get returned
    beacons,              \* the list a query method returned
    raised,               \* the exception that left the try block
    table_data,           \* main's locals, lines 419 to 422
    user_agents,
    reduced_data,
    activity_timestamps,
    stdout,               \* the lines printed
    log,                  \* the records handed to the logger
    call,                 \* a single function call under study: [fn, arg]
    ret                   \* its outcome, Pending before the call is made

mainVars ==
    <<pc, args, requests, response, got, beacons, raised, table_data,
      user_agents, reduced_data, activity_timestamps, stdout, log>>

vars == <<mainVars, call, ret>>

(***************************************************************************)
(* Values                                                                  *)
(***************************************************************************)
None == [t |-> "None", v |-> <<>>]

Str(s) == [t |-> "str", v |-> s]

Returns(v) == [exc |-> "None", val |-> v]

Raises(e) == [exc |-> e, val |-> <<>>]

\* an exception with the arguments it was built from
RaisesWith(e, info) == [exc |-> e, val |-> info]

Pending == [exc |-> "pending", val |-> <<>>]

Digits == {"0", "1", "2", "3", "4", "5", "6", "7", "8", "9"}

\* the characters \s matches, among those the model's strings use
Whitespace == {" ", "\t", "\n", "\r", "\f"}

DigitVal(c) ==
    CASE c = "0" -> 0 [] c = "1" -> 1 [] c = "2" -> 2 [] c = "3" -> 3
      [] c = "4" -> 4 [] c = "5" -> 5 [] c = "6" -> 6 [] c = "7" -> 7
      [] c = "8" -> 8 [] c = "9" -> 9

\* s with every occurrence of the character c removed: s.replace(c, '')
RECURSIVE Remove(_, _)
Remove(s, c) ==
    IF s = <<>> THEN <<>>
    ELSE IF Head(s) = c THEN Remove(Tail(s), c)
    ELSE <<Head(s)>> \o Remove(Tail(s), c)

\* the value of a run of decimal digits
RECURSIVE DigitsValue(_)
DigitsValue(d) ==
    IF d = <<>> THEN 0
    ELSE 10 * DigitsValue(SubSeq(d, 1, Len(d) - 1)) + DigitVal(d[Len(d)])

\* int(s, 10) of a string of the shape -?\d+
int10(s) ==
    IF s[1] = "-" THEN 0 - DigitsValue(Tail(s)) ELSE DigitsValue(s)

\* F(v), with v computed once and F applied to its value
Bind(v, F(_)) == CHOOSE r \in {F(x) : x \in {v}} : TRUE

\* s holds the character c at position i
At(s, i, c) == i <= Len(s) /\ s[i] = c

\* the first position from i on that holds no character of set (Len(s) + 1
\* when the run reaches the end): where a greedy \d* or \s* stops
RunEnd(s, i, set) ==
    IF i > Len(s) THEN i
    ELSE CHOOSE j \in i..(Len(s) + 1) :
            /\ \A k \in i..(j - 1) : s[k] \in set
            /\ (j = Len(s) + 1 \/ s[j] \notin set)

(***************************************************************************)
(* The state main() starts from.                                           *)
(***************************************************************************)
NoError == [exc |-> "None", val |-> <<>>]

NoArgs == [command |-> "", value |-> None, json |-> FALSE]

Text == [kind |-> "text", keys |-> {}, message |-> "", lines |-> <<>>]

NoResponse == [status_code |-> 0, body |-> Text]

MainInit ==
    /\ pc = "parse_args"
    /\ args = NoArgs
    /\ requests = <<>>
    /\ response = NoResponse
    /\ got = Text
    /\ beacons = <<>>
    /\ raised = NoError
    /\ table_data = <<>>
    /\ user_agents = <<>>
    /\ reduced_data = FALSE
    /\ activity_timestamps = <<>>
    /\ stdout = <<>>
    /\ log = <<>>


(***************************************************************************)
(* GeoLocation.from_string                                                 *)
(*                                                                         *)
(* re.match(r'^(-?\d+(?:\.\d{4})?),\s*(-?\d+(?:\.\d{4})?)$', s), scanned   *)
(* left to right.  The greedy scan decides the match: what follows \d+ is  *)
(* '.', ',' or the end, what follows \s* is '-' or a digit, so no shorter  *)
(* repetition can match where the longest one fails.                       *)
(***************************************************************************)

\* -?\d+(?:\.\d{4})? at position i: the position after it, 0 for no match
NumberEnd(s, i) ==
    Bind(IF At(s, i, "-") THEN i + 1 ELSE i, LAMBDA a :
    Bind(RunEnd(s, a, Digits), LAMBDA b :
        IF b = a THEN 0
        ELSE IF /\ b + 4 <= Len(s)
                /\ s[b] = "."
                /\ \A k \in (b + 1)..(b + 4) : s[k] \in Digits
             THEN b + 5
             ELSE b))

\* $ without re.MULTILINE: the end of the string, or just before a newline
\* that ends the string
AtDollar(s, i) ==
    \/ i = Len(s) + 1
    \/ i = Len(s) /\ s[i] = "\n"

\* the two groups of the match, or <<>> when s does not match
GeoMatch(s) ==
    Bind(NumberEnd(s, 1), LAMBDA e1 :
        IF e1 = 0 \/ ~At(s, e1, ",") THEN <<>>
        ELSE Bind(RunEnd(s, e1 + 1, Whitespace), LAMBDA w :
             Bind(NumberEnd(s, w), LAMBDA e2 :
                IF e2 # 0 /\ AtDollar(s, e2)
                THEN <<SubSeq(s, 1, e1 - 1), SubSeq(s, w, e2 - 1)>>
                ELSE <<>>)))

GeoLocation(latitude, longitude) ==
    [latitude |-> latitude, longitude |-> longitude]

from_string(s) ==
    Bind(GeoMatch(s), LAMBDA m :
        IF m = <<>>
        THEN RaisesWith("MalBeaconParsingException",
                        [message |-> "Invalid GeoLocation", s |-> s])
        ELSE Returns(GeoLocation(int10(Remove(m[1], ".")),
                                 int10(Remove(m[2], ".")))))

(***************************************************************************)
(* Geolocation strings under study: every string over GeoAlphabet of at    *)
(* most MaxGeoLen characters, and the strings lat sep lon tail built from  *)
(* GeoSigns, GeoInts, GeoFracs, GeoSeps and GeoTails.                      *)
(***************************************************************************)
MaxGeoLen == 4

GeoAlphabet == {"-", "7", ".", ",", " ", "\n", "a"}

RECURSIVE StringsOver(_, _)
StringsOver(alphabet, n) ==
    IF n = 0 THEN {<<>>}
    ELSE LET shorter == StringsOver(alphabet, n - 1)
         IN  shorter \cup {<<c>> \o s : c \in alphabet,
                                        s \in {t \in shorter : Len(t) = n - 1}}

GeoSigns == {<<>>, <<"-">>}

GeoInts == {<<"0">>, <<"5", "2">>}

GeoFracs ==
    {<<>>, <<".">>, <<".", "5">>, <<".", "5", "0", "0">>,
     <<".", "5", "0", "0", "0">>, <<".", "0", "0", "0", "1">>,
     <<".", "5", "0", "0", "0", "0">>, <<".", "5", "a", "0", "0">>}

GeoSeps == {<<",">>, <<",", " ">>, <<",", "\t", " ">>, <<>>, <<";">>, <<" ", ",">>}

GeoTails == {<<>>, <<"\n">>, <<" ">>, <<"\n", "\n">>}

GeoCoords == {sg \o n \o f : sg \in GeoSigns, n \in GeoInts, f \in GeoFracs}

GeoExamples ==
    {<<"4", "0", ".", "7", "1", "2", "8", ",", "-", "7", "4", ".", "0", "0", "6", "0">>,
     <<"5", "2", ".", "5", "0", "0", "0", ",", "1", "3", ".", "4", "0", "0", "0">>}

GeoStrings(n) ==
    StringsOver(GeoAlphabet, n)
        \cup {a \o sep \o b \o t :
                a \in GeoCoords, sep \in GeoSeps, b \in GeoCoords, t \in GeoTails}
        \cup GeoExamples

(***************************************************************************)
(* SpecGeo: from_string applied to one string.                             *)
(***************************************************************************)
InitGeo ==
    /\ call \in {[fn |-> "from_string", arg |-> s] : s \in GeoStrings(MaxGeoLen)}
    /\ ret = Pending
    /\ MainInit

CallFromString ==
    /\ call.fn = "from_string"
    /\ ret = Pending
    /\ ret' = from_string(call.arg)
    /\ UNCHANGED <<call, mainVars>>

NextGeo == CallFromString

SpecGeo == InitGeo /\ [][NextGeo]_vars

(***************************************************************************)
(* DateTimeFactory                                                         *)
(*                                                                         *)
(* from_str is datetime.strptime(s, '%Y-%m-%d %H:%M:%S').  strptime turns  *)
(* the format into the regular expression                                  *)
(*   (\d\d\d\d)-(1[0-2]|0[1-9]|[1-9])-(3[01]|[12]\d|0[1-9]|[1-9]| [1-9])   *)
(*   \s+(2[0-3]|[0-1]\d|\d):([0-5]\d|\d):(6[0-1]|[0-5]\d|\d)               *)
(* matched at the start of s, rejects text left over after the match, and  *)
(* then builds the datetime, which rejects a year 0, a second above 59 and *)
(* a day the month does not have.  Every rejection is a ValueError.  Each  *)
(* field is followed by a character that is no digit, so a field is the    *)
(* whole run of digits at its place.                                       *)
(***************************************************************************)
datetime(year, month, day, hour, minute, second) ==
    [year |-> year, month |-> month, day |-> day,
     hour |-> hour, minute |-> minute, second |-> second]

IsLeap(y) == (y % 4 = 0 /\ y % 100 # 0) \/ y % 400 = 0

DaysInMonth(y, m) ==
    IF m = 2 THEN (IF IsLeap(y) THEN 29 ELSE 28)
    ELSE IF m \in {4, 6, 9, 11} THEN 30 ELSE 31

\* a field of one or two digits whose value lies in lo..hi
IsField(t, lo, hi) ==
    /\ Len(t) \in {1, 2}
    /\ DigitsValue(t) \in lo..hi

\* where the day's field ends that starts at i: after the alternative
\* " [1-9]", a space and one digit, or after the run of digits
DayPadded(s, i) == At(s, i, " ") /\ i + 1 <= Len(s) /\ s[i + 1] \in (Digits \ {"0"})

DayEnd(s, i) == IF DayPadded(s, i) THEN i + 2 ELSE RunEnd(s, i, Digits)

DayText(s, i, dEnd) ==
    IF DayPadded(s, i) THEN <<s[i + 1]>> ELSE SubSeq(s, i, dEnd - 1)

\* the datetime of s whose fields end at mEnd, dEnd, hEnd, miEnd and sEnd,
\* the hour starting at hFrom
Strptime(s, mEnd, dEnd, hFrom, hEnd, miEnd, sEnd) ==
    IF /\ At(s, mEnd, "-")
       /\ IsField(SubSeq(s, 6, mEnd - 1), 1, 12)
       /\ IsField(DayText(s, mEnd + 1, dEnd), 1, 31)
       /\ hFrom > dEnd
       /\ At(s, hEnd, ":")
       /\ IsField(SubSeq(s, hFrom, hEnd - 1), 0, 23)
       /\ At(s, miEnd, ":")
       /\ IsField(SubSeq(s, hEnd + 1, miEnd - 1), 0, 59)
       /\ sEnd = Len(s) + 1
       /\ IsField(SubSeq(s, miEnd + 1, sEnd - 1), 0, 59)
       /\ DigitsValue(SubSeq(s, 1, 4)) >= 1
       /\ DigitsValue(DayText(s, mEnd + 1, dEnd))
            <= DaysInMonth(DigitsValue(SubSeq(s, 1, 4)),
                           DigitsValue(SubSeq(s, 6, mEnd - 1)))
    THEN Returns(datetime(DigitsValue(SubSeq(s, 1, 4)),
                          DigitsValue(SubSeq(s, 6, mEnd - 1)),
                          DigitsValue(DayText(s, mEnd + 1, dEnd)),
                          DigitsValue(SubSeq(s, hFrom, hEnd - 1)),
                          DigitsValue(SubSeq(s, hEnd + 1, miEnd - 1)),
                          DigitsValue(SubSeq(s, miEnd + 1, sEnd - 1))))
    ELSE Raises("ValueError")

from_str(s) ==
    IF ~(Len(s) >= 5 /\ (\A k \in 1..4 : s[k] \in Digits) /\ s[5] = "-")
    THEN Raises("ValueError")
    ELSE Bind(RunEnd(s, 6, Digits), LAMBDA mEnd :
         Bind(DayEnd(s, mEnd + 1), LAMBDA dEnd :
         Bind(RunEnd(s, dEnd, Whitespace), LAMBDA hFrom :
         Bind(RunEnd(s, hFrom, Digits), LAMBDA hEnd :
         Bind(RunEnd(s, hEnd + 1, Digits), LAMBDA miEnd :
         Bind(RunEnd(s, miEnd + 1, Digits), LAMBDA sEnd :
            Strptime(s, mEnd, dEnd, hFrom, hEnd, miEnd, sEnd)))))))

DigitChar(n) ==
    CASE n = 0 -> "0" [] n = 1 -> "1" [] n = 2 -> "2" [] n = 3 -> "3"
      [] n = 4 -> "4" [] n = 5 -> "5" [] n = 6 -> "6" [] n = 7 -> "7"
      [] n = 8 -> "8" [] n = 9 -> "9"

\* the decimal digits of n >= 0
RECURSIVE ToDigits(_)
ToDigits(n) ==
    IF n < 10 THEN <<DigitChar(n)>>
    ELSE ToDigits(n \div 10) \o <<DigitChar(n % 10)>>

\* %m, %d, %H, %M, %S: two digits
Pad2(n) == <<DigitChar(n \div 10), DigitChar(n % 10)>>

\* strftime('%Y-%m-%d'); %Y is the year's digits (the years of the model
\* have four)
to_date_str(dt) ==
    ToDigits(dt.year) \o <<"-">> \o Pad2(dt.month) \o <<"-">> \o Pad2(dt.day)

to_time_str(dt) ==
    Pad2(dt.hour) \o <<":">> \o Pad2(dt.minute) \o <<":">> \o Pad2(dt.second)

to_str(dt) == to_date_str(dt) \o <<" ">> \o to_time_str(dt)

(***************************************************************************)
(* MalBeaconClient.is_null and C2Beacon.from_response_line                 *)
(***************************************************************************)
NA == <<"N", "A">>

\* a variant of is_null that takes the empty string for null too
is_null_or_empty(value) == value = Str(NA) \/ value = None \/ value = Str(<<>>)

is_null(value) == value = Str(NA) \/ value = None

\* a variant of CookieId that keeps None in place of a null value
CookieId_normalized(value) ==
    [cls |-> "CookieId", value |-> IF is_null(value) THEN None ELSE value]

CookieId(value) == [cls |-> "CookieId", value |-> value]

Tag(value) == [cls |-> "Tag", value |-> value]

\* the keys of a response line whose value is copied unless it is null,
\* each with the attribute of C2Beacon it fills
PlainFields ==
    {<<"actorasnorg", "actor_asn_organization">>, <<"actorcity", "actor_city">>,
     <<"actorcountrycode", "actor_country_code">>,
     <<"actorhostname", "actor_hostname">>, <<"actorip", "actor_ip">>,
     <<"actorregion", "actor_region">>, <<"actortimezone", "actor_timezone">>,
     <<"c2", "c2">>, <<"c2asnorg", "c2_asn_organization">>,
     <<"c2city", "c2_city">>, <<"c2countrycode", "c2_country_code">>,
     <<"c2domain", "c2_domain">>, <<"c2domainresolved", "c2_domain_resolved">>,
     <<"c2hostname", "c2_hostname">>, <<"c2region", "c2_region">>,
     <<"c2timezone", "c2_timezone">>, <<"useragent", "user_agent">>}

\* the keys parsed by GeoLocation.from_string unless null
LocFields ==
    {<<"actorloc", "actor_location">>, <<"c2loc", "c2_location">>}

ResponseKeys ==
    {f[1] : f \in PlainFields \cup LocFields} \cup {"tstamp", "cookie_id", "tags"}

\* None if is_null(value) else value
Plain(value) == IF is_null(value) THEN None ELSE value

\* None if is_null(value) else GeoLocation.from_string(value)
Loc(value) == IF is_null(value) THEN Returns(None) ELSE from_string(value.v)

\* the arguments of C2Beacon(...) are evaluated in order: the first
\* exception among tstamp, actorloc and c2loc is the one raised
from_response_line(row) ==
    Bind(IF row["tstamp"] = None THEN Raises("TypeError")
         ELSE from_str(row["tstamp"].v), LAMBDA timestamp :
    Bind(Loc(row["actorloc"]), LAMBDA actor_location :
    Bind(Loc(row["c2loc"]), LAMBDA c2_location :
        IF timestamp.exc # "None" THEN timestamp
        ELSE IF actor_location.exc # "None" THEN actor_location
        ELSE IF c2_location.exc # "None" THEN c2_location
        ELSE Returns(
            [timestamp |-> timestamp.val,
             actor_asn_organization |-> Plain(row["actorasnorg"]),
             actor_city |-> Plain(row["actorcity"]),
             actor_country_code |-> Plain(row["actorcountrycode"]),
             actor_hostname |-> Plain(row["actorhostname"]),
             actor_ip |-> Plain(row["actorip"]),
             actor_location |-> actor_location.val,
             actor_region |-> Plain(row["actorregion"]),
             actor_timezone |-> Plain(row["actortimezone"]),
             c2 |-> Plain(row["c2"]),
             c2_asn_organization |-> Plain(row["c2asnorg"]),
             c2_city |-> Plain(row["c2city"]),
             c2_country_code |-> Plain(row["c2countrycode"]),
             c2_domain |-> Plain(row["c2domain"]),
             c2_domain_resolved |-> Plain(row["c2domainresolved"]),
             c2_hostname |-> Plain(row["c2hostname"]),
             c2_location |-> c2_location.val,
             c2_region |-> Plain(row["c2region"]),
             c2_timezone |-> Plain(row["c2timezone"]),
             cookie_id |-> CookieId(row["cookie_id"]),
             user_agent |-> Plain(row["useragent"]),
             tags |-> IF is_null(row["tags"]) THEN <<>>
                      ELSE <<Tag(row["tags"])>>]))))

(***************************************************************************)
(* Response lines under study: a base line with at most MaxVaried of its   *)
(* values replaced by values of the key's kind.                            *)
(***************************************************************************)
MaxVaried == 1

TstampGood == Str(<<"2", "0", "2", "3", "-", "0", "1", "-", "1", "5", " ", "0", "8", ":", "0", "0", ":", "0", "0">>)

TstampValues ==
    {TstampGood,
     Str(<<"2", "0", "2", "3", "-", "0", "1", "-", "1", "5", "T", "0", "8", ":", "0", "0", ":", "0", "0">>),
     Str(<<"2", "0", "2", "3", "-", "1", "-", "5", " ", "8", ":", "0", ":", "0">>),
     Str(<<"2", "0", "2", "3", "-", "0", "2", "-", "3", "0", " ", "0", "8", ":", "0", "0", ":", "0", "0">>),
     Str(<<"2", "0", "2", "3", "-", "0", "1", "-", "1", "5", " ", "0", "8", ":", "0", "0", ":", "0", "0", "\n">>),
     Str(<<"2", "0", "2", "4", "-", "0", "2", "-", "2", "9", " ", "2", "3", ":", "5", "9", ":", "5", "9">>),
     Str(NA), Str(<<>>), None}

GeoGood == Str(<<"4", "0", ".", "7", "1", "2", "8", ",", "-", "7", "4", ".", "0", "0", "6", "0">>)

LocValues ==
    {None, Str(NA), Str(<<>>), GeoGood,
     Str(<<"4", "0", ".", "7", "1", ",", "-", "7", "4", ".", "0", "0">>),
     Str(<<"5", "2", ",", " ", "1", "3">>),
     Str(<<"5", "2", ",", "1", "3", "\n">>),
     Str(<<"B", "e", "r", "l", "i", "n">>)}

PlainValues ==
    {None, Str(NA), Str(<<>>), Str(<<"n", "a">>), Str(<<"N", "A", " ">>),
     Str(<<"x">>)}

ValuesOf(key) ==
    IF key = "tstamp" THEN TstampValues
    ELSE IF key \in {"actorloc", "c2loc"} THEN LocValues
    ELSE PlainValues

\* the response line of the end-to-end scenario; the keys the scenario
\* leaves open hold the sentinel
ScenarioLine ==
    [k \in ResponseKeys |->
        CASE k = "tstamp" -> TstampGood
          [] k = "c2" -> Str(<<"e", "v", "i", "l", ".", "e", "x", "a", "m", "p", "l", "e">>)
          [] k = "c2loc" -> GeoGood
          [] k = "cookie_id" -> Str(<<"a", "b", "c", "1", "2", "3">>)
          [] k = "tags" -> Str(<<"m", "a", "l", "w", "a", "r", "e">>)
          [] OTHER -> Str(NA)]

RECURSIVE Varied(_, _)
Varied(lines, n) ==
    IF n = 0 THEN lines
    ELSE Varied(lines \cup UNION {{[l EXCEPT ![k] = v] : v \in ValuesOf(k)} :
                                     l \in lines, k \in ResponseKeys},
                n - 1)

(***************************************************************************)
(* SpecLine: from_response_line applied to one response line.              *)
(***************************************************************************)
InitLine ==
    /\ call \in {[fn |-> "from_response_line", arg |-> l] :
                    l \in Varied({ScenarioLine}, MaxVaried)}
    /\ ret = Pending
    /\ MainInit

CallFromResponseLine ==
    /\ call.fn = "from_response_line"
    /\ ret = Pending
    /\ ret' = from_response_line(call.arg)
    /\ UNCHANGED <<call, mainVars>>

NextLine == CallFromResponseLine

SpecLine == InitLine /\ [][NextLine]_vars

(***************************************************************************)
(* Guesser.guess_numeric_asn_from_organization_string                      *)
(*                                                                         *)
(* re.search(r'\d{2,8}', organization): the leftmost place where two       *)
(* digits stand, and from there the digits that follow, eight at most.     *)
(* An int is kept as its decimal digits, as int() and then the f-string of *)
(* the URL write it: without leading zeros.                                *)
(***************************************************************************)
PyInt(n) == [t |-> "int", v |-> ToDigits(n)]

Min(a, b) == IF a <= b THEN a ELSE b

guess_numeric_asn_from_organization_string(organization) ==
    LET starts == {i \in 1..(Len(organization) - 1) :
                      /\ organization[i] \in Digits
                      /\ organization[i + 1] \in Digits}
    IN  IF starts = {} THEN None
        ELSE LET i == CHOOSE k \in starts : \A j \in starts : k <= j
                 e == Min(RunEnd(organization, i, Digits), i + 8)
             IN  PyInt(DigitsValue(SubSeq(organization, i, e - 1)))

\* str(value) inside an f-string
Format(value) == IF value = None THEN <<"N", "o", "n", "e">> ELSE value.v

\* urllib.parse.quote: letters, digits and _.-~/ are kept, every other
\* character is written %XX; PercentCode holds the characters the model's
\* arguments use
Unreserved ==
    Digits \cup {"_", ".", "-", "~", "/"}
        \cup {"a", "b", "c", "d", "e", "f", "g", "h", "i", "j", "k", "l", "m",
              "n", "o", "p", "q", "r", "s", "t", "u", "v", "w", "x", "y", "z",
              "A", "B", "C", "D", "E", "F", "G", "H", "I", "J", "K", "L", "M",
              "N", "O", "P", "Q", "R", "S", "T", "U", "V", "W", "X", "Y", "Z"}

PercentCode(c) ==
    CASE c = " " -> <<"%", "2", "0">>
      [] c = ":" -> <<"%", "3", "A">>
      [] c = "(" -> <<"%", "2", "8">>
      [] c = ")" -> <<"%", "2", "9">>

RECURSIVE url_quote(_)
url_quote(s) ==
    IF s = <<>> THEN <<>>
    ELSE (IF Head(s) \in Unreserved THEN <<Head(s)>> ELSE PercentCode(Head(s)))
            \o url_quote(Tail(s))

(***************************************************************************)
(* MalBeaconClient                                                         *)
(*                                                                         *)
(* A response body is [kind, keys, message, lines]: text that is no JSON,  *)
(* a JSON object with its keys and the value of its 'message', or a JSON   *)
(* array of response lines.  A URL is [endpoint, argument], which stands   *)
(* for base_url + '/c2/' + endpoint + '/' + argument.                      *)
(***************************************************************************)
JsonObject(keys, message) ==
    [kind |-> "object", keys |-> keys, message |-> message, lines |-> <<>>]

JsonArray(lines) ==
    [kind |-> "array", keys |-> {}, message |-> "", lines |-> lines]

\* the classes of lines 49 to 100 that derive from MalBeaconException
MalBeaconExceptions ==
    {"MalBeaconException", "MalBeaconApiException",
     "MalBeaconUnauthorizedException", "MalBeaconRequestExceedQuotaException",
     "MalBeaconPrivilegedAccountRequiredException",
     "MalBeaconBadRequestException", "MalBeaconParsingException"}

\* response.json()['message']
JsonMessage(body) ==
    IF body.kind = "text" THEN Raises("JSONDecodeError")
    ELSE IF body.kind = "array" THEN Raises("TypeError")
    ELSE IF "message" \notin body.keys THEN Raises("KeyError")
    ELSE Returns(body.message)

MalBeaconApiException(resp, url) ==
    RaisesWith("MalBeaconApiException",
               [message |-> "Generic API Exception", content |-> resp.body,
                url |-> url])

MalBeaconUnauthorizedException(url) ==
    RaisesWith("MalBeaconUnauthorizedException",
               [message |-> "Unauthorized", content |-> Text, url |-> url])

\* a variant of _get for which 400 is an error whatever the message
_get_every_400_fails(url, resp) ==
    IF resp.status_code = 400
    THEN LET m == JsonMessage(resp.body)
         IN  IF m.exc # "None" THEN m ELSE MalBeaconApiException(resp, url)
    ELSE IF resp.status_code = 401
    THEN LET m == JsonMessage(resp.body)
         IN  IF m.exc # "None" THEN m
             ELSE IF m.val = "ERROR: Unauthorized"
                  THEN MalBeaconUnauthorizedException(url)
             ELSE MalBeaconApiException(resp, url)
    ELSE IF resp.status_code # 200 THEN MalBeaconApiException(resp, url)
    ELSE IF resp.body.kind = "text" THEN Raises("JSONDecodeError")
    ELSE Returns(resp.body)

\* the outcome of _get once the GET of url is answered by resp
_get(url, resp) ==
    IF resp.status_code = 400
    THEN LET m == JsonMessage(resp.body)
         IN  IF m.exc # "None" THEN m
             ELSE IF m.val = "ERROR: No Results" THEN Returns(JsonArray(<<>>))
             ELSE MalBeaconApiException(resp, url)
    ELSE IF resp.status_code = 401
    THEN LET m == JsonMessage(resp.body)
         IN  IF m.exc # "None" THEN m
             ELSE IF m.val = "ERROR: Unauthorized"
                  THEN MalBeaconUnauthorizedException(url)
             ELSE MalBeaconApiException(resp, url)
    ELSE IF resp.status_code # 200 THEN MalBeaconApiException(resp, url)
    ELSE IF resp.body.kind = "text" THEN Raises("JSONDecodeError")
    ELSE Returns(resp.body)

\* a variant of the comprehension that leaves out the lines that raise
RECURSIVE Comprehension_skipping(_)
Comprehension_skipping(lines) ==
    IF lines = <<>> THEN Returns(<<>>)
    ELSE Bind(from_response_line(Head(lines)), LAMBDA first :
            Bind(Comprehension_skipping(Tail(lines)), LAMBDA rest :
                IF first.exc # "None" THEN rest
                ELSE Returns(<<first.val>> \o rest.val)))

\* [C2Beacon.from_response_line(line) for line in lines]: the list, or the
\* exception of the first line that raises one
RECURSIVE Comprehension(_)
Comprehension(lines) ==
    IF lines = <<>> THEN Returns(<<>>)
    ELSE Bind(from_response_line(Head(lines)), LAMBDA first :
            IF first.exc # "None" THEN first
            ELSE Bind(Comprehension(Tail(lines)), LAMBDA rest :
                    IF rest.exc # "None" THEN rest
                    ELSE Returns(<<first.val>> \o rest.val)))

\* the comprehension over what _get returned.  Iterating over a JSON
\* object yields its keys, and from_response_line of a key raises
\* TypeError when it indexes the str by 'tstamp'
Beacons(json) ==
    IF json.kind = "array" THEN Comprehension(json.lines)
    ELSE IF json.keys = {} THEN Returns(<<>>)
    ELSE Raises("TypeError")

\* each command of main with the endpoint of the query method it calls
Endpoint(command) ==
    CASE command = "cookie" -> "cookie_id"
      [] command = "c2ip" -> "c2ip"
      [] command = "c2" -> "c2"
      [] command = "c2city" -> "c2city"
      [] command = "c2country" -> "c2country"
      [] command = "c2asnorg" -> "c2asnorg"
      [] command = "actorip" -> "actorip"
      [] command = "actorhostname" -> "actorhostname"
      [] command = "actorcity" -> "actorcity"
      [] command = "actorcountry" -> "actorcountrycode"
      [] command = "actorasnorg" -> "actorasnorg"
      [] command = "useragent" -> "useragent"
      [] command = "tag" -> "tags"

Commands ==
    {"cookie", "c2ip", "c2", "c2city", "c2country", "c2asnorg", "actorip",
     "actorhostname", "actorcity", "actorcountry", "actorasnorg", "useragent",
     "tag"}

AsnCommands == {"c2asnorg", "actorasnorg"}

QuotedCommands == {"c2", "useragent"}

\* the URL a query method builds from its argument
Url(command, value) ==
    [endpoint |-> Endpoint(command),
     argument |-> IF command \in QuotedCommands THEN url_quote(Format(value))
                  ELSE Format(value)]

(***************************************************************************)
(* CustomJsonEncoder                                                       *)
(***************************************************************************)
EncodeLocation(o) ==
    IF o = None THEN None
    ELSE [latitude |-> o.latitude, longitude |-> o.longitude]

RECURSIVE EncodeTags(_)
EncodeTags(tags) ==
    IF tags = <<>> THEN <<>> ELSE <<Head(tags).value>> \o EncodeTags(Tail(tags))

\* json.dumps(o, cls=CustomJsonEncoder) of a C2Beacon, as the JSON object
\* it writes
Encode(o) ==
    [o EXCEPT !.timestamp = Str(to_str(o.timestamp)),
              !.actor_location = EncodeLocation(o.actor_location),
              !.c2_location = EncodeLocation(o.c2_location),
              !.cookie_id = o.cookie_id.value,
              !.tags = EncodeTags(o.tags)]

(***************************************************************************)
(* main                                                                    *)
(***************************************************************************)
Line(kind, value) == [kind |-> kind, value |-> value]

Range(s) == {s[i] : i \in 1..Len(s)}

Header ==
    <<Str(<<"T", "i", "m", "e", "s", "t", "a", "m", "p">>),
      Str(<<"A", "c", "t", "o", "r", " ", "I", "P">>),
      Str(<<"C", "2", " ", "U", "R", "L">>)>>

\* the number of user agents listed, lines 462 and 64
Limit == 5

\* the width of the histogram, line 55: 80 - 10
TargetWidth == 70

\* a variant of the loop body that notes the user agent of a record only
\* when the record gets a row
LoopBody_agents_of_rows(st, c2_beacon, json) ==
    IF json
    THEN [st EXCEPT !.stdout = Append(@, Line("json", Encode(c2_beacon)))]
    ELSE LET seen == [st EXCEPT
                        !.activity_timestamps = Append(@, c2_beacon.timestamp)]
             last == st.table_data[Len(st.table_data)]
         IN  IF /\ st.table_data # <<>>
                /\ last[2] = c2_beacon.actor_ip
                /\ last[3] = c2_beacon.c2
             THEN [seen EXCEPT !.reduced_data = TRUE]
             ELSE [seen EXCEPT
                      !.user_agents =
                          IF c2_beacon.user_agent \in Range(@) THEN @
                          ELSE Append(@, c2_beacon.user_agent),
                      !.table_data =
                          Append(@, <<Str(to_date_str(c2_beacon.timestamp)),
                                      c2_beacon.actor_ip, c2_beacon.c2>>)]

\* one pass of the body of main's for loop, lines 438 to 454, over the
\* locals st
LoopBody(st, c2_beacon, json) ==
    IF json
    THEN [st EXCEPT !.stdout = Append(@, Line("json", Encode(c2_beacon)))]
    ELSE LET seen == [st EXCEPT
                        !.activity_timestamps = Append(@, c2_beacon.timestamp),
                        !.user_agents =
                            IF c2_beacon.user_agent \in Range(@) THEN @
                            ELSE Append(@, c2_beacon.user_agent)]
             last == st.table_data[Len(st.table_data)]
         IN  IF /\ st.table_data # <<>>
                /\ last[2] = c2_beacon.actor_ip
                /\ last[3] = c2_beacon.c2
             THEN [seen EXCEPT !.reduced_data = TRUE]
             ELSE [seen EXCEPT !.table_data =
                      Append(@, <<Str(to_date_str(c2_beacon.timestamp)),
                                  c2_beacon.actor_ip, c2_beacon.c2>>)]

\* the for loop over the list the query method returned
RECURSIVE ForLoop(_, _, _)
ForLoop(st, list, json) ==
    IF list = <<>> THEN st
    ELSE Bind(LoopBody(st, Head(list), json), LAMBDA next :
            ForLoop(next, Tail(list), json))

\* the lines that list user agents: those of lst[:limit], then '...' when
\* lst is longer
RECURSIVE Elements(_)
Elements(lst) ==
    IF lst = <<>> THEN <<>>
    ELSE <<Line("element", Head(lst))>> \o Elements(Tail(lst))

Listing(lst, limit) ==
    Elements(SubSeq(lst, 1, Min(Len(lst), limit)))
        \o (IF Len(lst) > limit THEN <<Line("ellipsis", <<>>)>> ELSE <<>>)

\* Printer.list
PrinterList(title, lst, limit) ==
    IF lst = <<>> THEN <<>>
    ELSE <<Line("title", title)>> \o Listing(lst, limit) \o <<Line("blank", <<>>)>>

Before(a, b) ==
    LET x == <<a.year, a.month, a.day, a.hour, a.minute, a.second>>
        y == <<b.year, b.month, b.day, b.hour, b.minute, b.second>>
    IN  \E k \in 1..6 : x[k] < y[k] /\ \A j \in 1..(k - 1) : x[j] = y[j]

Earliest(ts) == CHOOSE a \in Range(ts) : \A b \in Range(ts) : ~Before(b, a)

Latest(ts) == CHOOSE a \in Range(ts) : \A b \in Range(ts) : ~Before(a, b)

\* round(n / d) of Python 3: to the nearest integer, a half to the even one
Round(n, d) ==
    LET q == n \div d
        r == n % d
    IN  IF 2 * r < d THEN q
        ELSE IF 2 * r > d THEN q + 1
        ELSE IF q % 2 = 0 THEN q ELSE q + 1

Count(ts, hour) == Cardinality({i \in 1..Len(ts) : ts[i].hour = hour})

\* Printer.histogram of the hours of ts: a line for every hour that
\* occurs, in ascending order, with the width of its bar and its count
RECURSIVE HistogramFrom(_, _, _)
HistogramFrom(ts, hour, most) ==
    IF hour > 23 THEN <<>>
    ELSE (IF Count(ts, hour) = 0 THEN <<>>
          ELSE <<Line("bar", <<hour, Round(Count(ts, hour) * TargetWidth, most),
                               Count(ts, hour)>>)>>)
            \o HistogramFrom(ts, hour + 1, most)

Histogram(ts) ==
    Bind(CHOOSE n \in 1..Len(ts) :
            /\ \E h \in 0..23 : Count(ts, h) = n
            /\ \A h \in 0..23 : Count(ts, h) <= n,
         LAMBDA most : HistogramFrom(ts, 0, most))

\* the lines printed after the loop when --json is not given, lines 457
\* to 481
Summary(table, agents, timestamps) ==
    <<Line("table", table)>>
        \o (IF agents = <<>> THEN <<>>
            ELSE <<Line("blank", <<>>), Line("title", "User-Agents")>>
                    \o Listing(agents, Limit) \o <<Line("blank", <<>>)>>)
        \o <<Line("blank", <<>>)>>
        \o PrinterList("User-Agents", agents, Limit)
        \o (IF timestamps = <<>> THEN <<>>
            ELSE <<Line("first_active", Str(to_str(Earliest(timestamps)))),
                   Line("last_active", Str(to_str(Latest(timestamps)))),
                   Line("blank", <<>>), Line("title", "Time of day histogram")>>
                    \o Histogram(timestamps))

\* parser.parse_args(): the invocation inv = [command, value, json] of the
\* command line.  The asn of c2asnorg and actorasnorg goes through the
\* Guesser (type=, lines 371 and 386), whose None argparse keeps as the
\* value.  Without a command main has nothing to do.
ParseArgs(invocations) ==
    /\ pc = "parse_args"
    /\ \E inv \in invocations :
        /\ args' = [command |-> inv.command,
                    value |-> IF inv.command \in AsnCommands
                              THEN guess_numeric_asn_from_organization_string(inv.value)
                              ELSE Str(inv.value),
                    json |-> inv.json]
        /\ pc' = IF inv.command \in Commands THEN "query" ELSE "exit"
    /\ UNCHANGED <<requests, response, got, beacons, raised, table_data,
                   user_agents, reduced_data, activity_timestamps, stdout, log,
                   call, ret>>

\* lines 419 to 437 up to the return of _get: the locals are set, the
\* query method of the command sends its GET, the server answers with one
\* of responses, and _get returns or raises
Get(responses) ==
    /\ pc = "query"
    /\ table_data' = <<Header>>
    /\ user_agents' = <<>>
    /\ reduced_data' = FALSE
    /\ activity_timestamps' = <<>>
    /\ requests' = Append(requests, Url(args.command, args.value))
    /\ \E resp \in responses :
        \E r \in {_get(Url(args.command, args.value), resp)} :
            /\ response' = resp
            /\ IF r.exc = "None"
               THEN got' = r.val /\ raised' = NoError /\ pc' = "assemble"
               ELSE got' = got /\ raised' = r /\ pc' = "raised"
    /\ UNCHANGED <<args, beacons, stdout, log, call, ret>>

\* the list comprehension of the query method
Assemble ==
    /\ pc = "assemble"
    /\ \E r \in {Beacons(got)} :
           IF r.exc = "None"
           THEN beacons' = r.val /\ raised' = NoError /\ pc' = "loop"
           ELSE beacons' = beacons /\ raised' = r /\ pc' = "raised"
    /\ UNCHANGED <<args, requests, response, got, table_data, user_agents,
                   reduced_data, activity_timestamps, stdout, log, call, ret>>

\* the for loop of lines 423 to 454
MainLoop ==
    /\ pc = "loop"
    /\ \E st \in {ForLoop([table_data |-> table_data,
                           user_agents |-> user_agents,
                           reduced_data |-> reduced_data,
                           activity_timestamps |-> activity_timestamps,
                           stdout |-> stdout],
                          beacons, args.json)} :
           /\ table_data' = st.table_data
           /\ user_agents' = st.user_agents
           /\ reduced_data' = st.reduced_data
           /\ activity_timestamps' = st.activity_timestamps
           /\ stdout' = st.stdout
    /\ pc' = IF args.json THEN "exit" ELSE "render"
    /\ UNCHANGED <<args, requests, response, got, beacons, raised, log, call, ret>>

\* lines 456 to 483
Render ==
    /\ pc = "render"
    /\ stdout' = stdout \o Summary(table_data, user_agents, activity_timestamps)
    /\ reduced_data' = (reduced_data \/ Len(user_agents) > Limit)
    /\ log' = IF reduced_data' THEN Append(log, [levelname |-> "INFO",
                                                 msg |-> "Some data was for clarity reasons",
                                                 exception |-> NoError])
              ELSE log
    /\ pc' = "exit"
    /\ UNCHANGED <<args, requests, response, got, beacons, raised, table_data,
                   user_agents, activity_timestamps, call, ret>>

\* except MalBeaconUnauthorizedException, lines 484 to 486
ExceptUnauthorized ==
    /\ pc = "raised"
    /\ raised.exc = "MalBeaconUnauthorizedException"
    /\ log' = log \o <<[levelname |-> "ERROR", msg |-> "Not authorized!",
                        exception |-> NoError],
                       [levelname |-> "ERROR", msg |-> "exception",
                        exception |-> raised]>>
    /\ pc' = "exit"
    /\ UNCHANGED <<args, requests, response, got, beacons, raised, table_data,
                   user_agents, reduced_data, activity_timestamps, stdout,
                   call, ret>>

\* except MalBeaconException, lines 487 and 488
ExceptMalBeacon ==
    /\ pc = "raised"
    /\ raised.exc \in MalBeaconExceptions \ {"MalBeaconUnauthorizedException"}
    /\ log' = Append(log, [levelname |-> "ERROR", msg |-> "exception",
                           exception |-> raised])
    /\ pc' = "exit"
    /\ UNCHANGED <<args, requests, response, got, beacons, raised, table_data,
                   user_agents, reduced_data, activity_timestamps, stdout,
                   call, ret>>

\* an exception no except clause of main names leaves main: the
\* interpreter ends with a traceback and nothing is logged
Uncaught ==
    /\ pc = "raised"
    /\ raised.exc \notin MalBeaconExceptions
    /\ pc' = "traceback"
    /\ UNCHANGED <<args, requests, response, got, beacons, raised, table_data,
                   user_agents, reduced_data, activity_timestamps, stdout, log,
                   call, ret>>

(***************************************************************************)
(* Spec: a run of main for every command, with and without --json, and     *)
(* every answer of the server among Responses.                             *)
(***************************************************************************)
MaxLines == 2

OrganizationStrings ==
    {<<"A", "c", "m", "e", " ", "N", "e", "t", "w", "o", "r", "k", "s", " ", "A", "S", "1", "2", "3", "4", "5", " ", "H", "o", "l", "d", "i", "n", "g", "s">>,
     <<"A", "c", "m", "e">>,
     <<"A", "S", "7">>,
     <<"A", "S", "0", "1", "2", "3", "4", "5", "6", "7", "8", "9">>,
     <<>>}

ValueStrings(command) ==
    IF command \in AsnCommands THEN OrganizationStrings
    ELSE IF command \in QuotedCommands THEN {<<"e", "v", "i", "l", ".", "e", "x", "a", "m", "p", "l", "e", "/", "a", " ", "b">>}
    ELSE {<<"q", "u", "e", "r", "y">>}

ValidInvocations ==
    UNION {{[command |-> c, value |-> v, json |-> j] :
              v \in ValueStrings(c), j \in BOOLEAN} : c \in Commands}
        \cup {[command |-> "None", value |-> <<>>, json |-> j] : j \in BOOLEAN}

\* a response line with the given timestamp, actor IP, C2 and user agent
LineOf(tstamp, actorip, c2, useragent) ==
    [ScenarioLine EXCEPT !["tstamp"] = tstamp, !["actorip"] = actorip,
                         !["c2"] = c2, !["useragent"] = useragent]

TstampLater == Str(<<"2", "0", "2", "3", "-", "0", "1", "-", "1", "6", " ", "2", "1", ":", "3", "0", ":", "0", "5">>)

MainLines ==
    {ScenarioLine,
     LineOf(TstampGood, Str(<<"A">>), Str(<<"X">>), Str(<<"u", "1">>)),
     LineOf(TstampLater, Str(<<"A">>), Str(<<"X">>), Str(<<"u", "2">>)),
     LineOf(TstampLater, Str(<<"B">>), Str(<<"X">>), Str(<<"u", "1">>)),
     LineOf(Str(<<"2", "0", "2", "3", "-", "0", "1", "-", "1", "5", "T", "0", "8", ":", "0", "0", ":", "0", "0">>),
            Str(<<"A">>), Str(<<"X">>), Str(<<"u", "1">>)),
     [ScenarioLine EXCEPT !["actorloc"] = Str(<<"4", "0", ".", "7", "1", ",", "-", "7", "4", ".", "0", "0">>)]}

RECURSIVE SeqsUpTo(_, _)
SeqsUpTo(set, n) ==
    IF n = 0 THEN {<<>>}
    ELSE LET shorter == SeqsUpTo(set, n - 1)
         IN  shorter \cup {Append(s, x) : s \in {q \in shorter : Len(q) = n - 1},
                                          x \in set}

StatusCodes == {200, 400, 401, 404, 500}

Messages == {"ERROR: No Results", "ERROR: Unauthorized", "ERROR: Bad Request"}

Bodies ==
    {Text, JsonObject({}, ""), JsonObject({"error"}, "")}
        \cup {JsonObject({"message"}, m) : m \in Messages}
        \cup {JsonArray(lines) : lines \in SeqsUpTo(MainLines, MaxLines)}

Responses == {[status_code |-> s, body |-> b] : s \in StatusCodes, b \in Bodies}

NoCall == [fn |-> "None", arg |-> <<>>]

Init ==
    /\ MainInit
    /\ call = NoCall
    /\ ret = Pending

Next ==
    \/ ParseArgs(ValidInvocations)
    \/ Get(Responses)
    \/ Assemble
    \/ MainLoop
    \/ Render
    \/ ExceptUnauthorized
    \/ ExceptMalBeacon
    \/ Uncaught

Spec == Init /\ [][Next]_vars

(***************************************************************************)
(* SpecReduce: main without --json, answered 200 with at most MaxRecords   *)
(* lines that all assemble; the lines differ in timestamp, actor IP and    *)
(* C2.                                                                     *)
(***************************************************************************)
MaxRecords == 3

TableInvocations ==
    {[command |-> "c2ip", value |-> <<"q", "u", "e", "r", "y">>, json |-> FALSE]}

ReduceLines ==
    {LineOf(t, ip, c2, Str(<<"u", "1">>)) :
        t \in {TstampGood, TstampLater},
        ip \in {Str(<<"A">>), Str(<<"B">>), Header[2]},
        c2 \in {Str(<<"X">>), Header[3]}}

ReduceResponses ==
    {[status_code |-> 200, body |-> JsonArray(lines)] :
        lines \in SeqsUpTo(ReduceLines, MaxRecords)}

NextReduce ==
    \/ ParseArgs(TableInvocations)
    \/ Get(ReduceResponses)
    \/ Assemble
    \/ MainLoop
    \/ Render

SpecReduce == Init /\ [][NextReduce]_vars

(***************************************************************************)
(* SpecAgents: main without --json, answered 200 with at most              *)
(* MaxAgentRecords lines that differ in user agent and actor IP.  User     *)
(* agents are only compared with each other, so the lines name them in the *)
(* order of their first occurrence: u1, then u2, and so on.  The actor IPs *)
(* repeat one of IpPatterns, so that none, all or some of the lines have   *)
(* the actor IP and C2 of the line before them.                            *)
(***************************************************************************)
MaxAgentRecords == 6

AgentLine(ip, n) ==
    LineOf(TstampGood, Str(<<ip>>), Str(<<"X">>), Str(<<"u", DigitChar(n)>>))

\* the ways to number the user agents of up to n lines
RECURSIVE AgentNumbers(_)
AgentNumbers(n) ==
    IF n = 0 THEN {<<>>}
    ELSE Bind(AgentNumbers(n - 1), LAMBDA shorter :
            shorter \cup
            {Append(c[1], c[2]) :
                c \in {d \in shorter \X (1..n) :
                         /\ Len(d[1]) = n - 1
                         /\ \/ d[2] = 1
                            \/ \E i \in 1..Len(d[1]) : d[1][i] = d[2] - 1}})

IpPatterns == {<<"A">>, <<"A", "B">>, <<"A", "A", "B">>}

AgentPayloads(n) ==
    {[i \in 1..Len(c[1]) |->
        AgentLine(c[2][((i - 1) % Len(c[2])) + 1], c[1][i])] :
     c \in AgentNumbers(n) \X IpPatterns}

NextAgents ==
    \/ ParseArgs(TableInvocations)
    \/ Get({[status_code |-> 200, body |-> JsonArray(lines)] :
                lines \in AgentPayloads(MaxAgentRecords)})
    \/ Assemble
    \/ MainLoop
    \/ Render

SpecAgents == Init /\ [][NextAgents]_vars

(***************************************************************************)
(* Properties                                                              *)
(***************************************************************************)
Answered == response.status_code # 0

NoResults ==
    /\ response.status_code = 400
    /\ response.body.kind = "object"
    /\ "message" \in response.body.keys
    /\ response.body.message = "ERROR: No Results"

ApiErrors ==
    {"MalBeaconApiException", "MalBeaconUnauthorizedException",
     "MalBeaconRequestExceedQuotaException",
     "MalBeaconPrivilegedAccountRequiredException",
     "MalBeaconBadRequestException"}

\* C1: a GET answered 400 with the message "ERROR: No Results" makes the
\* query return an empty list and raises nothing (no error is logged, no
\* traceback); a GET answered 200 raises no API error, _get returns the
\* decoded body as it is, and when its lines assemble there is one record
\* for each of them.
C1_NoResultsIsEmpty ==
    /\ NoResults =>
        /\ raised.exc = "None"
        /\ got = JsonArray(<<>>)
        /\ pc \in {"assemble", "loop", "render", "exit"}
        /\ beacons = <<>>
        /\ \A i \in 1..Len(log) : log[i].levelname # "ERROR"
    /\ response.status_code = 200 =>
        /\ raised.exc \notin ApiErrors
        /\ response.body.kind # "text" => got = response.body
        /\ (/\ response.body.kind = "array"
            /\ raised.exc = "None"
            /\ pc \in {"loop", "render", "exit"})
            => Len(beacons) = Len(response.body.lines)

C1_Witness ==
    /\ NoResults
    /\ pc = "exit"
    /\ beacons = <<>>
    /\ requests # <<>>

\* C2: every response that is neither 200 nor the 400 "ERROR: No Results"
\* is classified, whatever its body: MalBeaconUnauthorizedException when
\* the status is 401 and the message "ERROR: Unauthorized", and otherwise
\* MalBeaconApiException with the raw body and the URL of the request.
C2_EveryFailureClassified ==
    (Answered /\ response.status_code # 200 /\ ~NoResults) =>
        IF /\ response.status_code = 401
           /\ response.body.kind = "object"
           /\ "message" \in response.body.keys
           /\ response.body.message = "ERROR: Unauthorized"
        THEN raised.exc = "MalBeaconUnauthorizedException"
        ELSE /\ raised.exc = "MalBeaconApiException"
             /\ raised.val.content = response.body
             /\ raised.val.url = requests[Len(requests)]

Called(fn) == call.fn = fn /\ ret.exc # "pending"

Absent == {Str(NA), None}

\* C3: in the record from_response_line returns, every optional field is
\* None when its raw value is "NA" or None, and the raw value unchanged
\* otherwise, the empty string included; by the same test a location is
\* None and the tags are empty.
C3_FieldNormalizer ==
    (Called("from_response_line") /\ ret.exc = "None") =>
        /\ \A f \in PlainFields :
            ret.val[f[2]] = IF call.arg[f[1]] \in Absent THEN None
                            ELSE call.arg[f[1]]
        /\ \A f \in LocFields :
            (ret.val[f[2]] = None) <=> (call.arg[f[1]] \in Absent)
        /\ (ret.val.tags = <<>>) <=> (call.arg["tags"] \in Absent)

C3_Witness ==
    /\ Called("from_response_line")
    /\ ret.exc = "None"
    /\ call.arg["actorip"] = Str(<<>>)
    /\ ret.val.actor_ip = Str(<<>>)
    /\ call.arg["c2city"] = Str(NA)
    /\ ret.val.c2_city = None

\* what C4 says of the record apart from its tags: the cookie id is the raw
\* value wrapped, a location is None for a null raw value and the parsed
\* GeoLocation otherwise, and the scenario's line gives the scenario's
\* record
C4_CookieAndLocations ==
    /\ ret.val.cookie_id = [cls |-> "CookieId", value |-> call.arg["cookie_id"]]
    /\ Len(ret.val.tags) <= 1
    /\ \A f \in LocFields :
        IF call.arg[f[1]] \in Absent THEN ret.val[f[2]] = None
        ELSE Returns(ret.val[f[2]]) = from_string(call.arg[f[1]].v)
    /\ call.arg = ScenarioLine =>
        /\ ret.val.actor_ip = None
        /\ ret.val.c2 = Str(<<"e", "v", "i", "l", ".", "e", "x", "a", "m", "p", "l", "e">>)
        /\ ret.val.c2_location = GeoLocation(407128, -740060)
        /\ ret.val.cookie_id.value = Str(<<"a", "b", "c", "1", "2", "3">>)
        /\ ret.val.tags = <<Tag(Str(<<"m", "a", "l", "w", "a", "r", "e">>))>>

\* C4 as claimed: the tags are empty if the raw tags are "NA", and
\* otherwise the one Tag of the raw value.
C4_TagsEmptyOnlyForSentinel ==
    (Called("from_response_line") /\ ret.exc = "None") =>
        /\ C4_CookieAndLocations
        /\ ret.val.tags = IF call.arg["tags"] = Str(NA) THEN <<>>
                          ELSE <<Tag(call.arg["tags"])>>

\* C4, amended: the record's cookie id is the raw cookie_id wrapped in
\* CookieId, never None; its tags are empty if the raw tags are "NA" or
\* None, and otherwise the one Tag of the raw value; its locations are None
\* or the GeoLocation parsed from the raw string.
C4_RecordAssembly ==
    (Called("from_response_line") /\ ret.exc = "None") =>
        /\ C4_CookieAndLocations
        /\ ret.val.tags = IF call.arg["tags"] \in Absent THEN <<>>
                          ELSE <<Tag(call.arg["tags"])>>

C4_Witness ==
    /\ Called("from_response_line")
    /\ ret.exc = "None"
    /\ call.arg["tags"] = None
    /\ ret.val.tags = <<>>
    /\ ret.val.cookie_id.value = Str(<<"a", "b", "c", "1", "2", "3">>)

AllIn(t, set) == \A i \in 1..Len(t) : t[i] \in set

\* -?\d+(\.\d{4})?, read as a grammar
IsGeoNumber(t) ==
    \E sign \in {0, 1} :
        /\ sign = 1 => (t # <<>> /\ t[1] = "-")
        /\ LET u == SubSeq(t, sign + 1, Len(t))
           IN  \/ u # <<>> /\ AllIn(u, Digits)
               \/ /\ Len(u) >= 6
                  /\ u[Len(u) - 4] = "."
                  /\ AllIn(SubSeq(u, 1, Len(u) - 5), Digits)
                  /\ AllIn(SubSeq(u, Len(u) - 3, Len(u)), Digits)

\* s is lat "," whitespace lon, the comma at i and lon from j on
GeoSplit(s, i, j) ==
    /\ i < j
    /\ s[i] = ","
    /\ IsGeoNumber(SubSeq(s, 1, i - 1))
    /\ AllIn(SubSeq(s, i + 1, j - 1), Whitespace)
    /\ IsGeoNumber(SubSeq(s, j, Len(s)))

InGeoGrammar(s) == \E i \in 1..Len(s), j \in 1..(Len(s) + 1) : GeoSplit(s, i, j)

\* C5: from_string returns a GeoLocation for the strings of the grammar
\* ^-?\d+(\.\d{4})?,\s*-?\d+(\.\d{4})?$ and raises
\* MalBeaconParsingException for every other string; each coordinate is the
\* number with its decimal point removed, read in base 10.
C5_GrammarExact ==
    Called("from_string") =>
        IF InGeoGrammar(call.arg)
        THEN /\ ret.exc = "None"
             /\ \E i \in 1..Len(call.arg), j \in 1..(Len(call.arg) + 1) :
                    /\ GeoSplit(call.arg, i, j)
                    /\ ret.val.latitude
                        = int10(Remove(SubSeq(call.arg, 1, i - 1), "."))
                    /\ ret.val.longitude
                        = int10(Remove(SubSeq(call.arg, j, Len(call.arg)), "."))
        ELSE ret.exc = "MalBeaconParsingException"

\* what from_string does accept: the strings of the grammar, and those with
\* one more newline at their end
GeoAcceptsGrammarAndFinalNewline ==
    Called("from_string") =>
        ((ret.exc = "None") <=>
            \/ InGeoGrammar(call.arg)
            \/ /\ call.arg # <<>>
               /\ call.arg[Len(call.arg)] = "\n"
               /\ InGeoGrammar(SubSeq(call.arg, 1, Len(call.arg) - 1)))

\* YYYY-MM-DD HH:MM:SS
FixedFormat(s) ==
    /\ Len(s) = 19
    /\ \A k \in {1, 2, 3, 4, 6, 7, 9, 10, 12, 13, 15, 16, 18, 19} : s[k] \in Digits
    /\ s[5] = "-" /\ s[8] = "-" /\ s[11] = " " /\ s[14] = ":" /\ s[17] = ":"

\* the first line of lines that does not assemble is line i, and its tstamp
\* is not in the fixed format
FirstFailureIsTstamp(lines, i) ==
    /\ ~FixedFormat(lines[i]["tstamp"].v)
    /\ \A j \in 1..(i - 1) : from_response_line(lines[j]).exc = "None"

\* C6: a response line whose tstamp is not in the format
\* YYYY-MM-DD HH:MM:SS makes the assembly raise MalBeaconParsingException,
\* which main catches and logs once before the run ends.
C6_TstampParsingError ==
    (/\ response.status_code = 200
     /\ response.body.kind = "array"
     /\ pc \in {"raised", "loop", "render", "exit", "traceback"}
     /\ \E i \in 1..Len(response.body.lines) :
            FirstFailureIsTstamp(response.body.lines, i)) =>
        /\ raised.exc = "MalBeaconParsingException"
        /\ pc \in {"raised", "exit"}
        /\ pc = "exit" =>
            /\ Len(log) = 1
            /\ log[1].levelname = "ERROR"
            /\ log[1].exception = raised

Parsed(lines) == [i \in 1..Len(lines) |-> from_response_line(lines[i])]

AllAssemble(lines) == \A i \in 1..Len(lines) : Parsed(lines)[i].exc = "None"

\* C7: for a 200 response of n lines, either the query returns n records,
\* the i-th assembled from the i-th line, and main consumes them in that
\* order (with --json it prints n JSON lines, the i-th of the i-th record),
\* or a line fails to assemble, wherever it stands, and then no record is
\* returned and nothing is printed: no JSON line, no table.
C7_AllOrNothing ==
    (response.status_code = 200 /\ response.body.kind = "array") =>
        LET lines == response.body.lines
        IN  /\ ~AllAssemble(lines) =>
                /\ beacons = <<>>
                /\ stdout = <<>>
                /\ table_data = <<Header>>
                /\ pc \in {"assemble", "raised", "exit", "traceback"}
                /\ pc \in {"exit", "traceback"} => raised.exc # "None"
            /\ (AllAssemble(lines) /\ pc \in {"loop", "render", "exit"}) =>
                /\ Len(beacons) = Len(lines)
                /\ \A i \in 1..Len(lines) : beacons[i] = Parsed(lines)[i].val
            /\ (AllAssemble(lines) /\ pc = "exit" /\ args.json) =>
                /\ Len(stdout) = Len(lines)
                /\ \A i \in 1..Len(lines) :
                    stdout[i] = Line("json", Encode(Parsed(lines)[i].val))
            /\ (AllAssemble(lines) /\ pc \in {"render", "exit"} /\ ~args.json) =>
                /\ Len(activity_timestamps) = Len(lines)
                /\ \A i \in 1..Len(lines) :
                    activity_timestamps[i] = Parsed(lines)[i].val.timestamp

C7_Witness ==
    /\ response.status_code = 200
    /\ response.body.kind = "array"
    /\ Len(response.body.lines) = 2
    /\ from_response_line(response.body.lines[1]).exc = "None"
    /\ from_response_line(response.body.lines[2]).exc # "None"
    /\ args.json
    /\ pc = "exit"
    /\ stdout = <<>>

Pair(c2_beacon) == <<c2_beacon.actor_ip, c2_beacon.c2>>

\* the records whose row the claimed rule keeps: the first, and every
\* record whose pair differs from the pair of the record before it (the
\* row before a record's row carries the pair of the record before it)
KeptRecords(list) ==
    {i \in 1..Len(list) : i = 1 \/ Pair(list[i]) # Pair(list[i - 1])}

RowOf(c2_beacon) ==
    <<Str(to_date_str(c2_beacon.timestamp)), c2_beacon.actor_ip, c2_beacon.c2>>

\* C8: without --json the data rows of the table are the rows of the
\* records whose (actor IP, C2) pair differs from the pair of the data row
\* before them, in order; so the first record has a row, no two adjacent
\* data rows carry the same pair, and reduced_data is set after the loop
\* when a row was suppressed.
C8_Deduplication ==
    (beacons # <<>> /\ ~args.json /\ pc \in {"render", "exit"}) =>
        LET rows == Tail(table_data)
        IN  /\ rows # <<>>
            /\ rows[1] = RowOf(beacons[1])
            /\ Len(rows) = Cardinality(KeptRecords(beacons))
            /\ \A k \in 1..Len(rows) :
                \E i \in KeptRecords(beacons) :
                    /\ Cardinality({j \in KeptRecords(beacons) : j <= i}) = k
                    /\ rows[k] = RowOf(beacons[i])
            /\ \A k \in 1..(Len(rows) - 1) :
                <<rows[k][2], rows[k][3]>> # <<rows[k + 1][2], rows[k + 1][3]>>
            /\ Len(rows) < Len(beacons) => reduced_data

\* C9: the ASN of an organization string is its first run of 2 to 8 digits
\* and None when it has none, and no GET is sent for a c2asnorg or
\* actorasnorg query whose ASN is None.
C9_NoRequestWithoutAsn ==
    /\ guess_numeric_asn_from_organization_string(<<"A", "c", "m", "e", " ", "N", "e", "t", "w", "o", "r", "k", "s", " ", "A", "S", "1", "2", "3", "4", "5", " ", "H", "o", "l", "d", "i", "n", "g", "s">>)
        = PyInt(12345)
    /\ guess_numeric_asn_from_organization_string(<<"A", "c", "m", "e">>) = None
    /\ (args.command \in AsnCommands /\ args.value = None) => requests = <<>>

FirstIndex(list, agent) ==
    CHOOSE i \in 1..Len(list) :
        /\ list[i].user_agent = agent
        /\ \A j \in 1..(i - 1) : list[j].user_agent # agent

Shown(kind) == {k \in 1..Len(stdout) : stdout[k].kind = kind}

\* C10: without --json user_agents holds every user agent of the records
\* once, in the order of first occurrence, those of records without a row
\* too; the summary lists none but the first 5 of them, shows '...' exactly
\* when there are more than 5, and then reduced_data is set.
C10_UserAgents ==
    (~args.json /\ pc \in {"render", "exit"}) =>
        /\ Range(user_agents) = {beacons[i].user_agent : i \in 1..Len(beacons)}
        /\ \A i, j \in 1..Len(user_agents) :
            i < j => /\ user_agents[i] # user_agents[j]
                     /\ FirstIndex(beacons, user_agents[i])
                            < FirstIndex(beacons, user_agents[j])
        /\ pc = "exit" =>
            /\ \A k \in Shown("element") :
                \E i \in 1..5 : i <= Len(user_agents)
                                 /\ stdout[k].value = user_agents[i]
            /\ \A i \in 1..5 :
                i <= Len(user_agents) =>
                    \E k \in Shown("element") : stdout[k].value = user_agents[i]
            /\ (Shown("ellipsis") # {}) <=> (Len(user_agents) > 5)
            /\ Len(user_agents) > 5 => reduced_data

C10_Witness ==
    /\ ~args.json
    /\ pc = "exit"
    /\ Len(user_agents) = 6
    /\ Shown("ellipsis") # {}
    /\ \E i \in 2..Len(beacons) :
        /\ Pair(beacons[i]) = Pair(beacons[i - 1])
        /\ FirstIndex(beacons, beacons[i].user_agent) = i

\* s without the newline that may end it
WithoutFinalNewline(s) ==
    IF s # <<>> /\ s[Len(s)] = "\n" THEN SubSeq(s, 1, Len(s) - 1) ELSE s

\* whether the number t is written with a fractional part
HasFraction(t) == \E k \in 1..Len(t) : t[k] = "."

\* 10,000 times the decimal value the number t writes: of -?\d+ the
\* integer times 10,000, of -?\d+\.\d{4} the integer part times 10,000
\* plus the four fractional digits, negated after a minus sign
TenThousandTimes(t) ==
    LET u == IF t[1] = "-" THEN Tail(t) ELSE t
        magnitude ==
            IF HasFraction(u)
            THEN 10000 * DigitsValue(SubSeq(u, 1, Len(u) - 5))
                    + DigitsValue(SubSeq(u, Len(u) - 3, Len(u)))
            ELSE 10000 * DigitsValue(u)
    IN  IF t[1] = "-" THEN 0 - magnitude ELSE magnitude

\* C11: for every string from_string accepts, each coordinate of the
\* GeoLocation is 10,000 times the decimal value written in the string,
\* whether the number has 4 fractional digits, lies between -1 and 0, or
\* is written without a fractional part.
C11_ScaledByTenThousand ==
    (Called("from_string") /\ ret.exc = "None") =>
        LET s == WithoutFinalNewline(call.arg)
        IN  \E i \in 1..Len(s), j \in 1..(Len(s) + 1) :
                /\ GeoSplit(s, i, j)
                /\ ret.val.latitude = TenThousandTimes(SubSeq(s, 1, i - 1))
                /\ ret.val.longitude = TenThousandTimes(SubSeq(s, j, Len(s)))

\* the coordinates written with 4 fractional digits are stored as 10,000
\* times their value, those written without a fractional part as their
\* value
GeoScaledOnlyWithFraction ==
    (Called("from_string") /\ ret.exc = "None") =>
        LET s == WithoutFinalNewline(call.arg)
            Stored(t) == IF HasFraction(t) THEN TenThousandTimes(t)
                         ELSE int10(t)
        IN  \E i \in 1..Len(s), j \in 1..(Len(s) + 1) :
                /\ GeoSplit(s, i, j)
                /\ ret.val.latitude = Stored(SubSeq(s, 1, i - 1))
                /\ ret.val.longitude = Stored(SubSeq(s, j, Len(s)))

====
